---- MODULE Spec2Model ----
(***************************************************************************)
(* Object3D of src/core/object3d.rs: the scene-graph node, its hierarchy   *)
(* operations add / remove over Rc<RefCell<..>> handles, its identity      *)
(* equality (uuid) and its set_rotation_from_* setters.                    *)
(*                                                                         *)
(* An object is a slot of the sequence objs (one slot per Object3D value   *)
(* ever built); a handle Rc<RefCell<HasObject3D>> is the slot's index, and *)
(* a Weak handle is the same index.  A RefCell guard the caller keeps      *)
(* across a call is an input of the call (guards).                         *)
(*                                                                         *)
(* Spec      new, add, remove, each called with no guard outstanding but   *)
(*           the borrow_mut the caller needs to reach &mut self of remove. *)
(* SpecHeld  the same calls made while the caller holds guards of its own. *)
(* SpecClone Spec with the derived Clone.                                  *)
(* SpecRot   the set_rotation_from_* setters on a built hierarchy.         *)
(* A panic unwinds: the guards of the call are released, the writes made   *)
(* before it stay, and the program may go on (catch_unwind).               *)
(***************************************************************************)
EXTENDS Integers, Sequences, FiniteSets, TLC

\* ---- bounds of the model
MaxNodes == 3
MaxEdges == 2

VARIABLES
    objs,   \* the Object3D values built so far, by slot
    last    \* the most recent call: operation, arguments, outcome

vars == <<objs, last>>

None == 0   \* Option::None of `parent`

Nodes == 1..Len(objs)
Slots == 1..MaxNodes

\* ---- math values (the math kernels are collaborators outside object3d.rs)
\* A quaternion is <<x, y, z, w>>; Quaternion::new() is the identity.
IdentityQuaternion == <<0, 0, 0, 1>>
ZeroVector == <<0, 0, 0>>
UnitVector == <<1, 1, 1>>
DEFAULT_UP == <<0, 1, 0>>
DEFAULT_MATRIX_AUTO_UPDATE == TRUE
IdentityMatrix == "identity"

\* Object3D::new(): every field of the struct, with the uuid drawn by the caller.
NewObject3D(u) ==
    [ uuid |-> u,
      name |-> "",
      children |-> <<>>,
      up |-> DEFAULT_UP,
      position |-> ZeroVector,
      quaternion |-> IdentityQuaternion,
      scale |-> UnitVector,
      model_view_matrix |-> IdentityMatrix,
      normal_matrix |-> IdentityMatrix,
      matrix |-> IdentityMatrix,
      matrix_world |-> IdentityMatrix,
      matrix_auto_update |-> DEFAULT_MATRIX_AUTO_UPDATE,
      matrix_world_needs_update |-> FALSE,
      layers |-> 1,
      visible |-> TRUE,
      cast_shadow |-> FALSE,
      receive_shadow |-> FALSE,
      frustum_culled |-> TRUE,
      render_order |-> 0,
      parent |-> None ]

\* Uuid::new_v4(): a value no live object carries (122 random bits).
FreshUuid == 1 + Len(objs)

\* impl PartialEq for Object3D: equality is equality of the uuid fields.
eq(a, b) == a.uuid = b.uuid

\* ---- RefCell borrow state
\* guards[n]: the guard the caller holds on handle n while the call runs.
GuardKinds == {"none", "shared", "mut"}
NoGuards == [n \in Slots |-> "none"]
\* n.remove(..) on a handle needs n.borrow_mut() for the whole call.
SelfGuard(self) == [n \in Slots |-> IF n = self THEN "mut" ELSE "none"]

\* RefCell::borrow() panics on a live mutable borrow,
\* RefCell::borrow_mut() on any live borrow.
BorrowPanics(guards, n) == guards[n] = "mut"
BorrowMutPanics(guards, n) == guards[n] # "none"

\* ---- helpers of add / remove
\* The number of entries over all children vectors (the model caps it).
RECURSIVE SumChildren(_)
SumChildren(n) ==
    IF n = 0 THEN 0 ELSE Len(objs[n].children) + SumChildren(n - 1)

Edges == SumChildren(Len(objs))

Count(s, x) == Cardinality({i \in 1..Len(s) : s[i] = x})
Range(s) == {s[i] : i \in 1..Len(s)}

\* child...parent = Some(weak)
SetParent(o, p) == [o EXCEPT !.parent = p]

\* A push that skips a child already listed.
PushChildIfAbsent(o, c) ==
    IF c \in Range(o.children) THEN o ELSE [o EXCEPT !.children = Append(@, c)]

\* parent...children.push(child.clone())
PushChild(o, c) == [o EXCEPT !.children = Append(@, c)]

\* Vec::swap_remove(i): the last element takes the place of element i.
SwapRemove(s, i) ==
    [j \in 1..(Len(s) - 1) |-> IF j = i THEN s[Len(s)] ELSE s[j]]

\* A removal that leaves the back-reference in place.
ClearParentSkipped(o) == o

\* object...parent = Option::None
ClearParent(o) == [o EXCEPT !.parent = None]

\* The scan of remove: the index of the first child equal to `object`
\* (0: idx stays None), or -1 when a borrow() of the comparison panics.
RECURSIVE Scan(_, _, _, _)
Scan(ch, i, object, guards) ==
    IF i > Len(ch) THEN 0
    ELSE IF BorrowPanics(guards, ch[i]) \/ BorrowPanics(guards, object) THEN -1
    ELSE IF eq(objs[ch[i]], objs[object]) THEN i
    ELSE Scan(ch, i + 1, object, guards)

Call(op, a, b, ret) == [op |-> op, a |-> a, b |-> b, ret |-> ret]

\* ---- operations
Init ==
    /\ objs = <<>>
    /\ last = Call("init", 0, 0, "ok")

\* Object3D::new(), wrapped by the caller in Rc<RefCell<..>>.
New ==
    /\ Len(objs) < MaxNodes
    /\ objs' = Append(objs, NewObject3D(FreshUuid))
    /\ last' = Call("new", Len(objs) + 1, 0, "ok")

\* Object3D::add(parent, child), the caller holding `guards`.
AddWith(parent, child, guards) ==
    /\ Edges < MaxEdges
    /\ IF BorrowMutPanics(guards, child)
       THEN /\ objs' = objs
            /\ last' = Call("add", parent, child, "panic")
       ELSE LET o1 == [objs EXCEPT ![child] = SetParent(@, parent)]
            IN  IF BorrowMutPanics(guards, parent)
                THEN /\ objs' = o1
                     /\ last' = Call("add", parent, child, "panic")
                ELSE /\ objs' = [o1 EXCEPT ![parent] = PushChild(@, child)]
                     /\ last' = Call("add", parent, child, "ok")

\* self.remove(object), the caller holding `guards` (guards[self] = "mut").
RemoveWith(self, object, guards) ==
    LET idx == Scan(objs[self].children, 1, object, guards)
    IN  IF idx = -1
        THEN /\ objs' = objs
             /\ last' = Call("remove", self, object, "panic")
        ELSE IF idx = 0
        THEN /\ objs' = objs
             /\ last' = Call("remove", self, object, "false")
        ELSE LET o1 == [objs EXCEPT ![self].children = SwapRemove(@, idx)]
             IN  IF BorrowMutPanics(guards, object)
                 THEN /\ objs' = o1
                      /\ last' = Call("remove", self, object, "panic")
                 ELSE /\ objs' = [o1 EXCEPT ![object] = ClearParent(@)]
                      /\ last' = Call("remove", self, object, "true")

\* Calls made with no guard outstanding but the one the call itself needs.
Add == \E parent, child \in Nodes : AddWith(parent, child, NoGuards)

Remove == \E self, object \in Nodes : RemoveWith(self, object, SelfGuard(self))

Next == New \/ Add \/ Remove

Spec == Init /\ [][Next]_vars

\* ---- calls made while the caller keeps RefCell guards of its own
\* The guards that decide a call are those on the handles it borrows: add
\* borrows child and parent, remove the children it scans and `object`.
GuardsOn(S) == {g \in [Slots -> GuardKinds] : \A n \in Slots \ S : g[n] = "none"}

AddHeld ==
    \E parent, child \in Nodes : \E guards \in GuardsOn({parent, child}) :
        AddWith(parent, child, guards)

RemoveHeld ==
    \E self, object \in Nodes :
        \E guards \in GuardsOn({self, object} \cup Range(objs[self].children)) :
            /\ guards[self] = "mut"
            /\ RemoveWith(self, object, guards)

NextHeld == New \/ AddHeld \/ RemoveHeld

SpecHeld == Init /\ [][NextHeld]_vars

\* ---- #[derive(Clone)]
\* Object3D::clone(): a second Object3D value, every field cloned, the uuid
\* with them; the children vector is cloned handle by handle.
Clone ==
    \E n \in Nodes :
        /\ Len(objs) < MaxNodes
        /\ Edges + Len(objs[n].children) <= MaxEdges
        /\ objs' = Append(objs, objs[n])
        /\ last' = Call("clone", n, Len(objs) + 1, "ok")

NextClone == New \/ Clone \/ Add \/ Remove

SpecClone == Init /\ [][NextClone]_vars

\* ---- set_rotation_from_*
\* Angles are multiples of pi; the sine and cosine of half the angle.
HalfSin(angle) == CASE angle % 4 = 0 -> 0 [] angle % 4 = 1 -> 1
                    [] angle % 4 = 2 -> 0 [] OTHER -> -1
HalfCos(angle) == CASE angle % 4 = 0 -> 1 [] angle % 4 = 1 -> 0
                    [] angle % 4 = 2 -> -1 [] OTHER -> 0

Axes == {<<1, 0, 0>>, <<0, 1, 0>>, <<0, 0, 1>>}
Angles == {0, 1}
Eulers == {<<0, 0, 0>>, <<1, 0, 0>>, <<1, 1, 0>>}
\* Rotation matrices by their diagonal (half turns about a basis axis).
RotationMatrices == {<<1, 1, 1>>, <<1, -1, -1>>, <<-1, 1, -1>>, <<-1, -1, 1>>}
Quaternions == {IdentityQuaternion, <<1, 0, 0, 0>>}

\* Quaternion::set_from_axis_angle(axis, angle), the axis normalized.
set_from_axis_angle(axis, angle) ==
    << axis[1] * HalfSin(angle), axis[2] * HalfSin(angle),
       axis[3] * HalfSin(angle), HalfCos(angle) >>

\* Quaternion::set_from_euler(euler), the angles applied in the order XYZ.
set_from_euler(e) ==
    LET c1 == HalfCos(e[1])  s1 == HalfSin(e[1])
        c2 == HalfCos(e[2])  s2 == HalfSin(e[2])
        c3 == HalfCos(e[3])  s3 == HalfSin(e[3])
    IN  << s1 * c2 * c3 + c1 * s2 * s3,
           c1 * s2 * c3 - s1 * c2 * s3,
           c1 * c2 * s3 + s1 * s2 * c3,
           c1 * c2 * c3 - s1 * s2 * s3 >>

\* Quaternion::set_from_rotation_matrix(m), m diagonal.
set_from_rotation_matrix(m) ==
    IF m[1] + m[2] + m[3] > 0 THEN IdentityQuaternion
    ELSE IF m[1] > m[2] /\ m[1] > m[3] THEN <<1, 0, 0, 0>>
    ELSE IF m[2] > m[3] THEN <<0, 1, 0, 0>>
    ELSE <<0, 0, 1, 0>>

\* Quaternion::copy(q)
copy(q) == q

\* A setter that also raises the dirty flag.
WithQuaternionAndDirty(o, q) ==
    [o EXCEPT !.quaternion = q, !.matrix_world_needs_update = TRUE]

\* self.quaternion.<setter>(..): the one field a set_rotation_from_* writes.
WithQuaternion(o, q) == [o EXCEPT !.quaternion = q]

set_rotation_from_axis_angle ==
    \E n \in Nodes : \E axis \in Axes : \E angle \in Angles :
        /\ objs' = [objs EXCEPT
                      ![n] = WithQuaternion(@, set_from_axis_angle(axis, angle))]
        /\ last' = Call("set_rotation_from_axis_angle", n, 0, "ok")

set_rotation_from_euler ==
    \E n \in Nodes : \E euler \in Eulers :
        /\ objs' = [objs EXCEPT ![n] = WithQuaternion(@, set_from_euler(euler))]
        /\ last' = Call("set_rotation_from_euler", n, 0, "ok")

set_rotation_from_matrix ==
    \E n \in Nodes : \E m \in RotationMatrices :
        /\ objs' = [objs EXCEPT
                      ![n] = WithQuaternion(@, set_from_rotation_matrix(m))]
        /\ last' = Call("set_rotation_from_matrix", n, 0, "ok")

set_rotation_from_quaternion ==
    \E n \in Nodes : \E q \in Quaternions :
        /\ objs' = [objs EXCEPT ![n] = WithQuaternion(@, copy(q))]
        /\ last' = Call("set_rotation_from_quaternion", n, 0, "ok")

\* The hierarchy that MaxNodes calls of new and add(1, k), k = 2.., build.
InitRot ==
    /\ objs = [k \in Slots |->
                 IF k = 1
                 THEN [NewObject3D(1) EXCEPT
                         !.children = [j \in 1..(MaxNodes - 1) |-> j + 1]]
                 ELSE SetParent(NewObject3D(k), 1)]
    /\ last = Call("add", 1, MaxNodes, "ok")

NextRot ==
    \/ set_rotation_from_axis_angle
    \/ set_rotation_from_euler
    \/ set_rotation_from_matrix
    \/ set_rotation_from_quaternion

SpecRot == InitRot /\ [][NextRot]_vars

\* ======================================================================
\* Properties
\* ======================================================================
Children(n) == objs[n].children
Parent(n) == objs[n].parent
Listed(n, p) == n \in Range(Children(p))

IsCall(c, op, a, b) == c.op = op /\ c.a = a /\ c.b = b

\* C1: add(p, c) followed immediately by p.remove(c) returns true, leaves
\* c.parent None, and leaves p.children with exactly one occurrence of c
\* fewer, every other entry keeping its multiplicity.
C1_AddThenRemove ==
    [][\A p, c \in Nodes :
          (last = Call("add", p, c, "ok") /\ IsCall(last', "remove", p, c))
          => /\ last'.ret = "true"
             /\ objs'[c].parent = None
             /\ \A x \in Nodes :
                   Count(objs'[p].children, x)
                     = Count(objs[p].children, x) - (IF x = c THEN 1 ELSE 0)]_vars

\* C2: r.remove(c) with c not an element of r.children returns false and
\* leaves both nodes (the whole hierarchy) unchanged.
C2_RemoveAbsentIsNoOp ==
    [][\A r, c \in Nodes :
          (IsCall(last', "remove", r, c) /\ ~Listed(c, r))
          => (last'.ret = "false" /\ objs' = objs)]_vars

C4_RootOrAttached ==
    \A n \in Nodes :
        \/ Parent(n) = None /\ \A m \in Nodes : ~Listed(n, m)
        \/ Parent(n) # None /\ Listed(n, Parent(n))

\* C5 (I2): a node is an element of the children of at most one node.
C5_AtMostOneParent ==
    \A n \in Nodes : Cardinality({m \in Nodes : Listed(n, m)}) <= 1

\* C6: remove reports its outcome through the returned bool only, never
\* through a RefCell borrow panic.
C6_RemoveNeverPanics ==
    last.op = "remove" => last.ret \in {"true", "false"}

\* C7: add(parent, child) sets child.parent and appends child to
\* parent.children, or does neither, in every outcome of the call.
C7_AddBothOrNeither ==
    [][\A p, c \in Nodes :
          IsCall(last', "add", p, c)
          => \/ objs' = objs
             \/ /\ objs'[c].parent = p
                /\ objs'[p].children = Append(objs[p].children, c)]_vars

\* C8: equality is identity: two distinct node objects never compare equal
\* (every node object carries an id of its own), a node equals itself.
C8_EqualityIsIdentity ==
    \A a, b \in Nodes : eq(objs[a], objs[b]) <=> a = b

\* C9: a set_rotation_from_* call changes the quaternion of its node and
\* nothing else, on that node or any other.
SetterOps ==
    { "set_rotation_from_axis_angle", "set_rotation_from_euler",
      "set_rotation_from_matrix", "set_rotation_from_quaternion" }

C9_SettersWriteQuaternionOnly ==
    [][\A n \in Nodes :
          (last'.op \in SetterOps /\ last'.a = n)
          => objs' = [objs EXCEPT ![n].quaternion = objs'[n].quaternion]]_vars

\* A setter has turned a node that has children, and one that has a parent.
C9_Witness ==
    /\ last.op \in SetterOps
    /\ objs[last.a].quaternion # IdentityQuaternion
    /\ \E n, m \in Nodes :
          /\ Children(n) # <<>> /\ objs[n].quaternion # IdentityQuaternion
          /\ Parent(m) # None /\ objs[m].quaternion # IdentityQuaternion

\* C10: every add(p, c) lengthens p.children by one and raises the number of
\* occurrences of c in it by one, whatever c's parent and p's children were.
C10_AddAppends ==
    [][\A p, c \in Nodes :
          IsCall(last', "add", p, c)
          => /\ Len(objs'[p].children) = Len(objs[p].children) + 1
             /\ Count(objs'[p].children, c) = Count(objs[p].children, c) + 1]_vars

\* add(p, c) called twice: c is listed twice by p.
C10_Witness ==
    \E p, c \in Nodes :
        /\ last = Call("add", p, c, "ok")
        /\ Count(Children(p), c) = 2

====
